---- MODULE Spec2Model ----
(***************************************************************************)
(* Model of test-harness.js: the repeated-trial driver (main), the two     *)
(* suites (runIteration, runLiveAppTests), the step helpers (testClick,    *)
(* testType), the global results accumulator and the final report.         *)
(*                                                                         *)
(* One action per awaited stage of main.  The automation client            *)
(* (chrome-ws-lib.js) is the environment: each of its calls either returns *)
(* or throws an Error carrying a message.                                  *)
(***************************************************************************)
EXTENDS Integers, Sequences, FiniteSets, TLC

VARIABLES
    argv,          \* process.argv.slice(2): <<>>, <<count>> or <<count, url>>
    flaky,         \* environment: the step names whose client calls may fail
    pc,            \* position of main
    iterations,    \* main: const iterations
    testUrl,       \* main: const testUrl
    isLiveApp,     \* main: const isLiveApp
    i,             \* main: loop variable
    k,             \* index of the next step inside the running suite
    tests,         \* runLiveAppTests: the local list tests
    results,       \* the global results object
    calls,         \* history: every automation-client call made, in order
    executed,      \* history: every step outcome produced, in order
    recorded,      \* history: every step outcome added to results, in order
    failRate,      \* main: const failRate (the printed text)
    exitCode,      \* argument of process.exit
    reported,      \* whether the results block was printed
    fatal,         \* history: the call whose error ended the run, or ""
    faults,        \* history: client calls that threw or read back ''
    replies,       \* history: what the client did with each entry of calls
    errorsByTest,  \* main: const errorsByTest, keys in insertion order
    printed        \* the failure blocks of the report, in print order

vars == <<argv, flaky, pc, iterations, testUrl, isLiveApp, i, k, tests,
          results, calls, executed, recorded, failRate, exitCode, reported,
          fatal, faults, replies, errorsByTest, printed>>

----------------------------------------------------------------------------
(* Bounds of the exploration *)

\* largest iteration count given on the command line
MaxIter == 4
\* largest number of two-way choices the client makes in one run: a click,
\* navigate or fill of a failing step counts 1 per iteration, a fill with
\* its read-back counts 2 per iteration
MaxChoices == 6

(* Program constants *)

DEFAULT_ITERATIONS == 50

\* URLs are kept as the list of their "/"-separated pieces
DEFAULT_TEST_URL == <<"file:", "", "repo", "test-react-inputs.html">>
LocalUrl == <<"http:", "", "localhost:8080", "settings">>
RemoteUrl == <<"https:", "", "example.com", "settings">>

----------------------------------------------------------------------------
(* Pure helpers *)

\* String.prototype.startsWith('http://localhost') on a split URL
StartsWithLocalhost(url) ==
    /\ Len(url) >= 3
    /\ url[1] = "http:"
    /\ url[2] = ""
    /\ url[3] \in {"localhost", "localhost:8080"}

\* testUrl.replace(/\/[^/]*$/, ''): drop the last "/" and what follows it
StripLastSegment(url) ==
    IF Len(url) >= 2 THEN SubSeq(url, 1, Len(url) - 1) ELSE url

\* parseInt(args[0]): <<n>> for a number, <<>> for NaN (argument missing)
ParseInt(args) == IF Len(args) >= 1 THEN <<args[1]>> ELSE <<>>

\* parseInt(args[0]) || DEFAULT_ITERATIONS: NaN and 0 are falsy
IterationsOf(args) ==
    IF ParseInt(args) = <<>> \/ ParseInt(args) = <<0>>
    THEN DEFAULT_ITERATIONS
    ELSE ParseInt(args)[1]

\* args[1] || DEFAULT_TEST_URL
TestUrlOf(args) == IF Len(args) >= 2 THEN args[2] ELSE DEFAULT_TEST_URL

----------------------------------------------------------------------------
(* The steps *)

\* Text with the iteration left out of the template
TextNoIteration(lit, iter) == [lit |-> lit, iter |-> <<>>]

\* the text a step types: a literal, followed by the iteration when embedded
Text(lit, iter) == [lit |-> lit, iter |-> iter]
NoText == Text("", <<>>)

ClientCall(op, iteration, target, text) ==
    [op |-> op, iter |-> iteration, target |-> target, text |-> text]

Success == [success |-> TRUE, error |-> ""]
Failure(message) == [success |-> FALSE, error |-> message]

\* e.message of the Error a failed client call throws
ErrorMessage(op) ==
    CASE op = "click" -> "click failed"
      [] op = "fill" -> "fill failed"
      [] op = "eval" -> "eval failed"
      [] op = "navigate" -> "navigate failed"
      [] OTHER -> "connect failed"

ValueNotSet == "Value not set. Expected text, got: \"\""

\* what the client may do with one call
CallOutcomes == {"ok", "throw"}
\* what the read-back eval may do: return '', return a value, or throw
EvalOutcomes == {"empty", "value", "throw"}

\* testClick: one click call inside try/catch.  calls: the client calls
\* made; escaped: whether an error left the function; result: what it returns
testClick(iteration, selector, click) ==
    [calls |-> <<ClientCall("click", iteration, <<selector>>, NoText)>>,
     escaped |-> FALSE,
     result |-> IF click = "ok" THEN Success
                ELSE Failure(ErrorMessage("click"))]

\* testType without its try/catch: a throwing fill or eval leaves it
testTypeNoCatch(iteration, selector, text, fill, readBack) ==
    IF fill = "throw"
    THEN [calls |-> <<ClientCall("fill", iteration, <<selector>>, text)>>,
          escaped |-> TRUE,
          result |-> Failure(ErrorMessage("fill"))]
    ELSE [calls |-> <<ClientCall("fill", iteration, <<selector>>, text),
                      ClientCall("eval", iteration, <<selector>>, NoText)>>,
          escaped |-> readBack = "throw",
          result |-> CASE readBack = "throw" -> Failure(ErrorMessage("eval"))
                       [] readBack = "empty" -> Failure(ValueNotSet)
                       [] OTHER -> Success]

\* testType without the check of the value read back
testTypeNoCheck(iteration, selector, text, fill, readBack) ==
    IF fill = "throw"
    THEN [calls |-> <<ClientCall("fill", iteration, <<selector>>, text)>>,
          escaped |-> FALSE,
          result |-> Failure(ErrorMessage("fill"))]
    ELSE [calls |-> <<ClientCall("fill", iteration, <<selector>>, text),
                      ClientCall("eval", iteration, <<selector>>, NoText)>>,
          escaped |-> FALSE,
          result |-> CASE readBack = "throw" -> Failure(ErrorMessage("eval"))
                       [] OTHER -> Success]

\* testType: fill, then read the value back with eval unless fill threw,
\* all inside try/catch
testType(iteration, selector, text, fill, readBack) ==
    IF fill = "throw"
    THEN [calls |-> <<ClientCall("fill", iteration, <<selector>>, text)>>,
          escaped |-> FALSE,
          result |-> Failure(ErrorMessage("fill"))]
    ELSE [calls |-> <<ClientCall("fill", iteration, <<selector>>, text),
                      ClientCall("eval", iteration, <<selector>>, NoText)>>,
          escaped |-> FALSE,
          result |-> CASE readBack = "throw" -> Failure(ErrorMessage("eval"))
                       [] readBack = "empty" -> Failure(ValueNotSet)
                       [] OTHER -> Success]

\* runIteration: const tests
FixedTests(iteration) ==
    << [name |-> "Click button", kind |-> "click",
        selector |-> "#test-button", text |-> NoText],
       [name |-> "Type in controlled input", kind |-> "type",
        selector |-> "#controlled-input", text |-> Text("test", <<iteration>>)],
       [name |-> "Type in uncontrolled input", kind |-> "type",
        selector |-> "#uncontrolled-input", text |-> Text("test", <<iteration>>)],
       [name |-> "Type in validated input", kind |-> "type",
        selector |-> "#validated-input", text |-> Text("abc", <<>>)],
       [name |-> "Type in nested input", kind |-> "type",
        selector |-> "#nested-input", text |-> Text("test", <<iteration>>)],
       [name |-> "Type in transform input", kind |-> "type",
        selector |-> "#transform-input", text |-> Text("hello", <<>>)],
       [name |-> "Type in debounced input", kind |-> "type",
        selector |-> "#debounced-input", text |-> Text("test", <<iteration>>)],
       [name |-> "Type in email input", kind |-> "type",
        selector |-> "#email-input", text |-> Text("test@example.com", <<>>)],
       [name |-> "Type in textarea", kind |-> "type",
        selector |-> "#controlled-textarea", text |-> Text("line1\\nline2", <<>>)] >>

\* test.fn() of one entry of tests
RunTest(test, iteration, first, second) ==
    IF test.kind = "click"
    THEN testClick(iteration, test.selector, first)
    ELSE testType(iteration, test.selector, test.text, first, second)

\* runLiveAppTests: the four wrapped stages, in order
LiveSteps(iteration, baseUrl) ==
    << [name |-> "Navigate to settings", op |-> "navigate",
        target |-> baseUrl \o <<"settings">>, text |-> NoText],
       [name |-> "Click New Organization (XPath)", op |-> "click",
        target |-> <<"//a[text()='New Organization'] | //button[text()='New Organization']">>,
        text |-> NoText],
       [name |-> "Type org name", op |-> "fill",
        target |-> <<"form input[type=\"text\"]">>,
        text |-> Text("TestOrg", <<iteration>>)],
       [name |-> "Click Cancel", op |-> "click",
        target |-> <<"button[type='button']">>, text |-> NoText] >>

FixedNames == {FixedTests(1)[n].name : n \in 1..Len(FixedTests(1))}
LiveNames == {LiveSteps(1, <<>>)[n].name : n \in 1..Len(LiveSteps(1, <<>>))}
TypeNames == {FixedTests(1)[n].name : n \in {m \in 1..Len(FixedTests(1)) :
                                               FixedTests(1)[m].kind = "type"}}

\* one entry of the step history
Outcome(iteration, name, result) ==
    [iteration |-> iteration, test |-> name,
     success |-> result.success, error |-> result.error]

----------------------------------------------------------------------------
(* The aggregator: the two places that update results *)

\* RecordStep with the else dropped: passed++ runs for every outcome
RecordStepNoElse(res, iteration, name, result) ==
    IF ~result.success
    THEN [res EXCEPT !.failed = @ + 1,
                     !.passed = @ + 1,
                     !.errors = Append(@, [iteration |-> iteration,
                                           test |-> name,
                                           error |-> result.error])]
    ELSE [res EXCEPT !.passed = @ + 1]

\* RecordStep storing a zero-based iteration
RecordStepZeroBased(res, iteration, name, result) ==
    IF ~result.success
    THEN [res EXCEPT !.failed = @ + 1,
                     !.errors = Append(@, [iteration |-> iteration - 1,
                                           test |-> name,
                                           error |-> result.error])]
    ELSE [res EXCEPT !.passed = @ + 1]

\* runIteration: if (!result.success) { failed++; errors.push } else passed++
RecordStep(res, iteration, name, result) ==
    IF ~result.success
    THEN [res EXCEPT !.failed = @ + 1,
                     !.errors = Append(@, [iteration |-> iteration,
                                           test |-> name,
                                           error |-> result.error])]
    ELSE [res EXCEPT !.passed = @ + 1]

\* RecordLive without errors.push
RecordLiveNoPush(res, iteration, r) ==
    IF r.success
    THEN [res EXCEPT !.passed = @ + 1]
    ELSE [res EXCEPT !.failed = @ + 1]

\* main: if (r.success) passed++; else { failed++; errors.push }
RecordLive(res, iteration, r) ==
    IF r.success
    THEN [res EXCEPT !.passed = @ + 1]
    ELSE [res EXCEPT !.failed = @ + 1,
                     !.errors = Append(@, [iteration |-> iteration,
                                           test |-> r.name,
                                           error |-> r.error])]

\* main: for (const r of iterResults) ...
RECURSIVE RecordAll(_, _, _)
RecordAll(res, iteration, iterResults) ==
    IF iterResults = <<>> THEN res
    ELSE RecordAll(RecordLive(res, iteration, Head(iterResults)),
                   iteration, Tail(iterResults))

\* the outcomes of one live iteration as entries of the step history
RECURSIVE Outcomes(_, _)
Outcomes(iteration, iterResults) ==
    IF iterResults = <<>> THEN <<>>
    ELSE <<Outcome(iteration, Head(iterResults).name, Head(iterResults))>>
         \o Outcomes(iteration, Tail(iterResults))

----------------------------------------------------------------------------
(* The report *)

\* Number.prototype.toFixed(1) of the quotient num / den, den > 0:
\* the nearest multiple of 0.1, the larger one on a tie
ToFixed1(num, den) ==
    LET tenths == (2 * 10 * num + den) \div (2 * den)
    IN [nan |-> FALSE, whole |-> tenths \div 10, tenth |-> tenths % 10]

\* the text "NaN"
NaNText == [nan |-> TRUE, whole |-> 0, tenth |-> 0]

\* FailRate dividing by passed instead of passed + failed
FailRateOverPassed(res) ==
    IF res.passed = 0 THEN NaNText
    ELSE ToFixed1(100 * res.failed, res.passed)

\* ((failed / (passed + failed)) * 100).toFixed(1); 0 / 0 is NaN
FailRate(res) ==
    IF res.passed + res.failed = 0 THEN NaNText
    ELSE ToFixed1(100 * res.failed, res.passed + res.failed)

\* process.exit(results.failed > 0 ? 1 : 0)
ExitStatus(res) == IF res.failed > 0 THEN 1 ELSE 0

\* the position of key among the keys of groups, 0 when it is no key
KeyIndex(groups, key) ==
    IF \E g \in 1..Len(groups) : groups[g].test = key
    THEN CHOOSE g \in 1..Len(groups) : groups[g].test = key
    ELSE 0

\* AddToGroup assigning a fresh list on every record
AddToGroupOverwrite(groups, err) ==
    IF KeyIndex(groups, err.test) = 0
    THEN Append(groups, [test |-> err.test, errors |-> <<err>>])
    ELSE [groups EXCEPT ![KeyIndex(groups, err.test)].errors = <<err>>]

\* main lines 289-291: if (!errorsByTest[key]) errorsByTest[key] = [];
\* errorsByTest[key].push(err)
AddToGroup(groups, err) ==
    IF KeyIndex(groups, err.test) = 0
    THEN Append(groups, [test |-> err.test, errors |-> <<err>>])
    ELSE [groups EXCEPT ![KeyIndex(groups, err.test)].errors = Append(@, err)]

\* main lines 287-292: for (const err of results.errors) ...
RECURSIVE GroupByTest(_, _)
GroupByTest(groups, errors) ==
    IF errors = <<>> THEN groups
    ELSE GroupByTest(AddToGroup(groups, Head(errors)), Tail(errors))

\* Array.prototype.slice(start, end) for 0 <= start <= end
Slice(list, start, end) ==
    SubSeq(list, start + 1, IF end < Len(list) THEN end ELSE Len(list))

\* MoreLine with >= in place of >
MoreLineFromThree(errors) ==
    IF Len(errors) >= 3 THEN <<Len(errors) - 3>> ELSE <<>>

\* main lines 300-302: the "... and N more" line, <<>> when not printed
MoreLine(errors) ==
    IF Len(errors) > 3 THEN <<Len(errors) - 3>> ELSE <<>>

\* main lines 295-302: what is printed for one entry of errorsByTest
Block(group) ==
    [test |-> group.test,
     count |-> Len(group.errors),
     examples |-> Slice(group.errors, 0, 3),
     more |-> MoreLine(group.errors)]

\* main lines 294-303: for (const [test, errors] of Object.entries(...))
PrintGroups(groups) == [g \in 1..Len(groups) |-> Block(groups[g])]

----------------------------------------------------------------------------
(* The run *)

\* the command lines explored
Counts == -1..MaxIter
ArgvSet ==
    {<<>>} \cup {<<n>> : n \in Counts}
           \cup {<<n, u>> : n \in Counts, u \in {LocalUrl, RemoteUrl}}

\* the step names of the suite a command line selects
SuiteNames(args) ==
    IF StartsWithLocalhost(TestUrlOf(args)) THEN LiveNames ELSE FixedNames

\* the two-way choices a set of failing steps costs in one iteration
ChoicesOf(names) ==
    Cardinality(names) + Cardinality(names \cap TypeNames)

\* the sets of failing steps explored for a command line
FlakySets(args) ==
    {f \in SUBSET SuiteNames(args) :
        f = {} \/ IterationsOf(args) * ChoicesOf(f) <= MaxChoices}

\* what a call made inside the step called name may do
MayDo(name, outcomes, good) == IF name \in flaky THEN outcomes ELSE {good}

Init ==
    /\ argv \in ArgvSet
    /\ flaky \in FlakySets(argv)
    /\ pc = "Idle"
    /\ iterations = 0
    /\ testUrl = <<>>
    /\ isLiveApp = FALSE
    /\ i = 0
    /\ k = 0
    /\ tests = <<>>
    /\ results = [passed |-> 0, failed |-> 0, errors |-> <<>>]
    /\ calls = <<>>
    /\ executed = <<>>
    /\ recorded = <<>>
    /\ failRate = NaNText
    /\ exitCode = 0
    /\ reported = FALSE
    /\ fatal = ""
    /\ faults = 0
    /\ replies = <<>>
    /\ errorsByTest = <<>>
    /\ printed = <<>>

\* main lines 212-222: read the command line
Start ==
    /\ pc = "Idle"
    /\ iterations' = IterationsOf(argv)
    /\ testUrl' = TestUrlOf(argv)
    /\ isLiveApp' = StartsWithLocalhost(TestUrlOf(argv))
    /\ pc' = "Connecting"
    /\ UNCHANGED <<replies, errorsByTest, printed,
                   argv, flaky, i, k, tests, results, calls, executed,
                   recorded, failRate, exitCode, reported, fatal, faults>>

\* AfterSetupError without process.exit(1): main goes on to the next stage
AfterSetupErrorFallThrough == IF pc = "Connecting" THEN "Connected" ELSE "Loop"

\* where main goes when initializeSession or the first navigate throws:
\* the catch block ends in process.exit(1)
AfterSetupError == "Exited"

\* main lines 225-233: initializeSession
Connect ==
    /\ pc = "Connecting"
    /\ calls' = Append(calls, ClientCall("initializeSession", 0, <<>>, NoText))
    /\ \E r \in CallOutcomes :
         /\ replies' = Append(replies, r)
         /\ IF r = "ok"
            THEN /\ pc' = "Connected"
                 /\ UNCHANGED <<exitCode, fatal, faults>>
            ELSE /\ pc' = AfterSetupError
                 /\ exitCode' = 1
                 /\ fatal' = "initializeSession"
                 /\ faults' = faults + 1
    /\ UNCHANGED <<errorsByTest, printed,
                   argv, flaky, iterations, testUrl, isLiveApp, i, k, tests,
                   results, executed, recorded, failRate, reported>>

\* main lines 236-243: navigate to the test page; then let i = 1
NavigateToTestPage ==
    /\ pc = "Connected"
    /\ calls' = Append(calls, ClientCall("navigate", 0, testUrl, NoText))
    /\ \E r \in CallOutcomes :
         /\ replies' = Append(replies, r)
         /\ IF r = "ok"
            THEN /\ pc' = "Loop"
                 /\ i' = 1
                 /\ UNCHANGED <<exitCode, fatal, faults>>
            ELSE /\ pc' = AfterSetupError
                 /\ i' = i
                 /\ exitCode' = 1
                 /\ fatal' = "navigate"
                 /\ faults' = faults + 1
    /\ UNCHANGED <<errorsByTest, printed,
                   argv, flaky, iterations, testUrl, isLiveApp, k, tests,
                   results, executed, recorded, failRate, reported>>

\* the loop condition of main line 248
LoopCondition(index, count) == index <= count

\* main lines 248-251: the loop test and the choice of the suite
LoopTest ==
    /\ pc = "Loop"
    /\ IF LoopCondition(i, iterations)
       THEN IF isLiveApp
            THEN pc' = "Live" /\ k' = 1 /\ tests' = <<>>
            ELSE pc' = "Clear" /\ k' = k /\ tests' = tests
       ELSE pc' = "Report" /\ k' = k /\ tests' = tests
    /\ UNCHANGED <<replies, errorsByTest, printed,
                   argv, flaky, iterations, testUrl, isLiveApp, i, results,
                   calls, executed, recorded, failRate, exitCode, reported,
                   fatal, faults>>

\* where main goes when clearTestPage throws: nothing in the loop catches
\* it, so main rejects and main().catch calls process.exit(1)
AfterClearError == "Exited"

\* clearTestPage left out of the loop body
clearTestPageSkipped ==
    /\ pc = "Clear"
    /\ pc' = "Step"
    /\ k' = 1
    /\ UNCHANGED <<argv, flaky, iterations, testUrl, isLiveApp, i, tests,
                   results, calls, executed, recorded, failRate, exitCode,
                   reported, fatal, faults, replies, errorsByTest, printed>>

\* main lines 262-263 and clearTestPage: one eval call, not wrapped
clearTestPage ==
    /\ pc = "Clear"
    /\ calls' = Append(calls, ClientCall("eval", i, <<"input, textarea">>, NoText))
    /\ \E r \in CallOutcomes :
         /\ replies' = Append(replies, r)
         /\ IF r = "ok"
            THEN /\ pc' = "Step"
                 /\ k' = 1
                 /\ UNCHANGED <<exitCode, fatal, faults>>
            ELSE /\ pc' = AfterClearError
                 /\ k' = k
                 /\ exitCode' = 1
                 /\ fatal' = "clearTestPage"
                 /\ faults' = faults + 1
    /\ UNCHANGED <<errorsByTest, printed,
                   argv, flaky, iterations, testUrl, isLiveApp, i, tests,
                   results, executed, recorded, failRate, reported>>

\* runIteration lines 143-157: one pass of the for loop over tests
runIteration ==
    /\ pc = "Step"
    /\ k <= Len(FixedTests(i))
    /\ LET test == FixedTests(i)[k] IN
       \E first \in MayDo(test.name, CallOutcomes, "ok"),
          second \in MayDo(test.name, EvalOutcomes, "value") :
         LET run == RunTest(test, i, first, second) IN
         /\ calls' = calls \o run.calls
         /\ replies' = replies \o SubSeq(<<first, second>>, 1, Len(run.calls))
         /\ faults' = IF first = "ok" /\ (test.kind = "click" \/ second = "value")
                       THEN faults ELSE faults + 1
         /\ IF run.escaped
            THEN \* the error leaves runIteration and main: main().catch
                 /\ pc' = "Exited"
                 /\ exitCode' = 1
                 /\ fatal' = test.name
                 /\ UNCHANGED <<k, executed, results, recorded>>
            ELSE /\ executed' = Append(executed, Outcome(i, test.name, run.result))
                 /\ results' = RecordStep(results, i, test.name, run.result)
                 /\ recorded' = Append(recorded, Outcome(i, test.name, run.result))
                 /\ k' = k + 1
                 /\ UNCHANGED <<pc, exitCode, fatal>>
    /\ UNCHANGED <<errorsByTest, printed,
                   argv, flaky, iterations, testUrl, isLiveApp, i, tests,
                   failRate, reported>>

\* runIteration line 159 and main lines 265-270: return, pause, i++
IterationDone ==
    /\ pc = "Step"
    /\ k > Len(FixedTests(i))
    /\ i' = i + 1
    /\ pc' = "Loop"
    /\ UNCHANGED <<replies, errorsByTest, printed,
                   argv, flaky, iterations, testUrl, isLiveApp, k, tests,
                   results, calls, executed, recorded, failRate, exitCode,
                   reported, fatal, faults>>

\* LiveContinues without the early return of the navigation catch block
LiveContinuesAlways(index, ok) == TRUE

\* LiveContinues with the early return in every catch block
LiveContinuesOnSuccess(index, ok) == ok

\* whether runLiveAppTests goes on after the stage at position index
\* ended with success ok: only a failed navigation returns early
LiveContinues(index, ok) == index > 1 \/ ok

\* runLiveAppTests lines 169-203: one wrapped stage
runLiveAppTests ==
    /\ pc = "Live"
    /\ LET steps == LiveSteps(i, StripLastSegment(testUrl))
           step == steps[k] IN
       \E r \in MayDo(step.name, CallOutcomes, "ok") :
         LET entry == [name |-> step.name, success |-> r = "ok",
                       error |-> IF r = "ok" THEN ""
                                 ELSE ErrorMessage(step.op)] IN
         /\ calls' = Append(calls, ClientCall(step.op, i, step.target, step.text))
         /\ replies' = Append(replies, r)
         /\ faults' = IF r = "ok" THEN faults ELSE faults + 1
         /\ tests' = Append(tests, entry)
         /\ executed' = Append(executed, Outcome(i, step.name, entry))
         /\ IF LiveContinues(k, r = "ok") /\ k < Len(steps)
            THEN pc' = "Live" /\ k' = k + 1
            ELSE pc' = "LiveReturn" /\ k' = k
    /\ UNCHANGED <<errorsByTest, printed,
                   argv, flaky, iterations, testUrl, isLiveApp, i, results,
                   recorded, failRate, exitCode, reported, fatal>>

\* ForOf visiting the list from its end
ForOfReversed(list) == [n \in 1..Len(list) |-> list[Len(list) + 1 - n]]

\* the order in which for (const r of iterResults) visits the list
ForOf(list) == list

\* main lines 252-259 and 269-270: count what the suite returned, i++
RecordLiveResults ==
    /\ pc = "LiveReturn"
    /\ results' = RecordAll(results, i, ForOf(tests))
    /\ recorded' = recorded \o Outcomes(i, ForOf(tests))
    /\ i' = i + 1
    /\ pc' = "Loop"
    /\ UNCHANGED <<replies, errorsByTest, printed,
                   argv, flaky, iterations, testUrl, isLiveApp, k, tests,
                   calls, executed, failRate, exitCode, reported, fatal,
                   faults>>

\* main lines 272-311: print the results, compute the rate, exit
Report ==
    /\ pc = "Report"
    /\ reported' = TRUE
    /\ IF results.failed > 0
       THEN /\ errorsByTest' = GroupByTest(<<>>, results.errors)
            /\ printed' = PrintGroups(GroupByTest(<<>>, results.errors))
       ELSE UNCHANGED <<errorsByTest, printed>>
    /\ failRate' = FailRate(results)
    /\ exitCode' = ExitStatus(results)
    /\ pc' = "Exited"
    /\ UNCHANGED <<replies,
                   argv, flaky, iterations, testUrl, isLiveApp, i, k, tests,
                   results, calls, executed, recorded, fatal, faults>>

Next ==
    \/ Start
    \/ Connect
    \/ NavigateToTestPage
    \/ LoopTest
    \/ clearTestPage
    \/ runIteration
    \/ IterationDone
    \/ runLiveAppTests
    \/ RecordLiveResults
    \/ Report

Spec == Init /\ [][Next]_vars

----------------------------------------------------------------------------
(* Properties *)

IsPrefix(s, t) == Len(s) <= Len(t) /\ SubSeq(t, 1, Len(s)) = s

\* the entries of a history that belong to iteration j
OfIteration(history, j) ==
    LET In(e) == e.iteration = j IN SelectSeq(history, In)

\* the client calls made for iteration j
CallsOf(j) == LET In(c) == c.iter = j IN SelectSeq(calls, In)

Names(history) == [n \in 1..Len(history) |-> history[n].test]

FixedOrder == [n \in 1..Len(FixedTests(1)) |-> FixedTests(1)[n].name]
LiveOrder == [n \in 1..Len(LiveSteps(1, <<>>)) |-> LiveSteps(1, <<>>)[n].name]

SetupSucceeded == i >= 1

\* the count given on the command line: <<n>>, or <<>> when none was given
Requested == ParseInt(argv)

Rate(whole, tenth) == [nan |-> FALSE, whole |-> whole, tenth |-> tenth]

\* C1: in every reachable state, for both strategies and whatever the steps
\* do, results.passed + results.failed is the number of step outcomes
\* recorded so far.
C1_PassedPlusFailed ==
    results.passed + results.failed = Len(recorded)

\* a live run back at the loop head with passes and failures counted
C1_Witness ==
    /\ isLiveApp
    /\ pc = "Loop"
    /\ i = 3
    /\ results.passed > 0
    /\ results.failed > 1

\* C2: for every requested count N >= 0, a fixed-page run in which every
\* client action succeeds ends with exactly 9 * N recorded outcomes, all
\* of them successes.
C2_NineTimesN ==
    (/\ pc = "Exited"
     /\ ~isLiveApp
     /\ faults = 0
     /\ Requested # <<>>
     /\ Requested[1] >= 0)
    => /\ Len(recorded) = 9 * Requested[1]
       /\ results.passed = 9 * Requested[1]
       /\ results.failed = 0

\* C3: when zero iterations are requested no suite invocation runs, and the
\* run ends with passed = 0, failed = 0, a reported rate of 0.0 and exit
\* code 0.
C3_ZeroIterations ==
    Requested = <<0>>
    => /\ pc \notin {"Clear", "Step", "Live", "LiveReturn"}
       /\ executed = <<>>
       /\ (pc = "Exited" /\ SetupSucceeded)
          => /\ results.passed = 0
             /\ results.failed = 0
             /\ reported
             /\ failRate = Rate(0, 0)
             /\ exitCode = 0

\* C4: once initializeSession and the first navigate succeeded the run
\* cannot abort: whatever the client does afterwards, all iterations run and
\* the report is reached; only a failed connection or first navigation ends
\* a run without a report.
C4_NoAbortAfterSetup ==
    (pc = "Exited" /\ SetupSucceeded)
    => /\ reported
       /\ i = iterations + 1 \/ iterations < 1

\* C5: for every run that ends, the exit code is 0 exactly when setup
\* succeeded and every recorded outcome was a success, and 1 otherwise.
C5_ExitCode ==
    pc = "Exited"
    => /\ exitCode \in {0, 1}
       /\ exitCode = 0 <=> /\ SetupSucceeded
                           /\ \A n \in 1..Len(recorded) : recorded[n].success

\* C6: when initializeSession or the first navigate fails, the run ends at
\* once with exit code 1: the failed call is not repeated, no later client
\* call is made, no iteration begins, nothing is ever recorded.
C6_FatalSetup ==
    fatal \in {"initializeSession", "navigate"}
    => /\ pc = "Exited"
       /\ exitCode = 1
       /\ ~ENABLED Next
       /\ calls = IF fatal = "initializeSession"
                  THEN <<ClientCall("initializeSession", 0, <<>>, NoText)>>
                  ELSE <<ClientCall("initializeSession", 0, <<>>, NoText),
                         ClientCall("navigate", 0, testUrl, NoText)>>
       /\ i = 0
       /\ executed = <<>>
       /\ recorded = <<>>
       /\ results = [passed |-> 0, failed |-> 0, errors |-> <<>>]
       /\ ~reported

\* the first navigate threw
C6_Witness ==
    /\ fatal = "navigate"
    /\ pc = "Exited"
    /\ Len(calls) = 2

\* what a state must satisfy for a client call of iteration j to be made
\* next: every outcome of an earlier iteration is already recorded
C7_MayCall(j) ==
    \A n \in 1..Len(executed) :
        executed[n].iteration < j
        => n <= Len(recorded) /\ recorded[n] = executed[n]

\* C7: outcomes are recorded in the order in which the steps ran, and no
\* client call of a later iteration (a step or the input clearing) is made
\* before every outcome of the earlier iterations is recorded.
C7_RecordedInOrder ==
    /\ [](IsPrefix(recorded, executed))
    /\ [][Len(calls') > Len(calls)
          => C7_MayCall(calls'[Len(calls')].iter)]_vars
    /\ [][Len(executed') > Len(executed)
          => /\ executed'[Len(executed')].iteration = i
             /\ \A n \in 1..Len(executed) : executed[n].iteration <= i]_vars

\* a live run at a step of its second iteration, the first one recorded
C7_Witness ==
    /\ isLiveApp
    /\ pc = "Live"
    /\ i = 2
    /\ k = 3
    /\ Len(recorded) = 4
    /\ Len(executed) = 6
    /\ results.failed >= 1

\* C8: in the fixed-page strategy no step failure aborts or shortens an
\* iteration and no step runs twice: every iteration that runs has its 9
\* steps run once each in the fixed order, with 9 outcomes recorded, and no
\* error of a click, fill or eval made inside a step leaves the step.
C8_NineStepsEach ==
    ~isLiveApp
    => /\ fatal \notin FixedNames
       /\ recorded = executed
       /\ \A j \in 1..i :
            LET done == IF j < i THEN Len(FixedOrder)
                        ELSE IF pc = "Step" THEN k - 1
                        ELSE 0
            IN Names(OfIteration(recorded, j)) = SubSeq(FixedOrder, 1, done)
       /\ (pc = "Exited" /\ reported /\ iterations >= 1)
          => /\ i = iterations + 1
             /\ Len(recorded) = 9 * iterations

\* an iteration in which the click and a typing step failed and the
\* remaining steps still ran
C8_Witness ==
    /\ ~isLiveApp
    /\ pc = "Step"
    /\ k = 10
    /\ i = 2
    /\ Len(OfIteration(results.errors, 2)) = 2
    /\ ~recorded[10].success
    /\ recorded[18].success

\* C9: in the live strategy an iteration whose navigation to the settings
\* page fails records that one Failure and makes no click or fill call;
\* every other iteration records 4 outcomes, so with the navigation failing
\* in iteration 2 of 3 only, iterations 1 and 3 record 4 outcomes each.
C9_NavigationGuards ==
    isLiveApp
    => /\ \A j \in 1..(i - 1) :
            LET outs == OfIteration(recorded, j)
                made == CallsOf(j)
            IN /\ Len(outs) >= 1
               /\ outs[1].test = "Navigate to settings"
               /\ IF outs[1].success
                  THEN Names(outs) = LiveOrder /\ Len(made) = 4
                  ELSE /\ Len(outs) = 1
                       /\ Len(made) = 1
                       /\ made[1].op = "navigate"
       /\ (/\ pc = "Exited"
           /\ reported
           /\ iterations = 3
           /\ Names(results.errors) = <<"Navigate to settings">>
           /\ results.errors[1].iteration = 2)
          => /\ results.passed = 8
             /\ Len(OfIteration(recorded, 1)) = 4
             /\ Len(OfIteration(recorded, 2)) = 1
             /\ Len(OfIteration(recorded, 3)) = 4

\* the navigation failed in iteration 2 of 3 and nothing else did
C9_Witness ==
    /\ isLiveApp
    /\ pc = "Exited"
    /\ reported
    /\ iterations = 3
    /\ Names(results.errors) = <<"Navigate to settings">>
    /\ results.errors[1].iteration = 2

\* C10: the reported failure rate is 0.0 whenever failed = 0, also when no
\* step ran; it is 100.0 whenever passed = 0 and failed > 0; otherwise it
\* is 100 * failed / (passed + failed), to one decimal.
C10_FailureRate ==
    reported
    => failRate = IF results.failed = 0 THEN Rate(0, 0)
                  ELSE IF results.passed = 0 THEN Rate(100, 0)
                  ELSE ToFixed1(100 * results.failed,
                                results.passed + results.failed)

\* whether entry n of calls is the read-back of the typing step called name
IsReadBack(n, name) ==
    /\ calls[n].op = "eval"
    /\ \E t \in 1..Len(FixedTests(1)) :
         /\ FixedTests(1)[t].name = name
         /\ calls[n].target = <<FixedTests(1)[t].selector>>

\* every read-back of the step called name returned '' and every other
\* client call made so far succeeded
AlwaysEmpty(name) ==
    \A n \in 1..Len(calls) :
        IF IsReadBack(n, name) THEN replies[n] = "empty"
        ELSE replies[n] \in {"ok", "value"}

\* C11: a 3-iteration fixed-page run in which one typing step always reads
\* back '' and everything else succeeds ends with exactly 3 failure
\* records, all of that step, for iterations 1, 2, 3, with passed = 24,
\* failed = 3 and a printed rate of 11.1.
C11_EmptyReadBack ==
    \A name \in TypeNames :
        (/\ pc = "Exited"
         /\ ~isLiveApp
         /\ iterations = 3
         /\ AlwaysEmpty(name))
        => /\ reported
           /\ results.errors = [j \in 1..3 |-> [iteration |-> j,
                                                test |-> name,
                                                error |-> ValueNotSet]]
           /\ results.passed = 24
           /\ results.failed = 3
           /\ failRate = Rate(11, 1)

\* the debounced input read back '' in each of 3 iterations
C11_Witness ==
    /\ pc = "Exited"
    /\ ~isLiveApp
    /\ iterations = 3
    /\ AlwaysEmpty("Type in debounced input")

\* the fill calls made by the fixed-page steps called names
FillsOf(names) ==
    LET In(c) == /\ c.op = "fill"
                 /\ \E t \in 1..Len(FixedTests(1)) :
                      /\ FixedTests(1)[t].name \in names
                      /\ c.target = <<FixedTests(1)[t].selector>>
    IN SelectSeq(calls, In)

\* every text in fills carries the iteration it was typed in, and two texts
\* typed into the same target in different iterations differ
TextsDiffer(fills) ==
    \A n \in 1..Len(fills) :
        /\ fills[n].text.iter = <<fills[n].iter>>
        /\ \A m \in 1..(n - 1) :
             (fills[m].target = fills[n].target /\ fills[m].iter # fills[n].iter)
             => fills[m].text # fills[n].text

\* the typing steps whose template holds ${iteration}
IterationTextNames ==
    {"Type in controlled input", "Type in uncontrolled input",
     "Type in nested input", "Type in debounced input"}

\* C12 as stated: in the fixed-page strategy the text of every one of the 8
\* typing steps embeds the iteration, so it differs between two iterations.
C12_AllTextsDiffer ==
    ~isLiveApp => TextsDiffer(FillsOf(TypeNames))

\* C12 as amended: the texts of the controlled, uncontrolled, nested and
\* debounced input steps embed the iteration and so differ between two
\* iterations; the other four typing steps type the same text every time.
C12_FourTextsDiffer ==
    ~isLiveApp
    => /\ TextsDiffer(FillsOf(IterationTextNames))
       /\ LET fixed == FillsOf(TypeNames \ IterationTextNames) IN
          \A n \in 1..Len(fixed) :
              /\ fixed[n].text.iter = <<>>
              /\ \A m \in 1..(n - 1) :
                   fixed[m].target = fixed[n].target
                   => fixed[m].text = fixed[n].text

\* the second iteration has typed into every input
C12_Witness ==
    /\ ~isLiveApp
    /\ pc = "Step"
    /\ i = 2
    /\ k = 10
    /\ Len(FillsOf(IterationTextNames)) = 8
    /\ Len(FillsOf(TypeNames)) = 16

\* the records of errors whose step is called name
GroupOf(errors, name) ==
    LET In(e) == e.test = name IN SelectSeq(errors, In)

\* the position of the first record of errors whose step is called name
FirstOf(errors, name) ==
    CHOOSE n \in 1..Len(errors) :
        /\ errors[n].test = name
        /\ \A m \in 1..(n - 1) : errors[m].test # name

RECURSIVE TotalSize(_)
TotalSize(groups) ==
    IF groups = <<>> THEN 0
    ELSE Len(Head(groups).errors) + TotalSize(Tail(groups))

\* C13: grouping the failure records by step name partitions the list:
\* every record is in exactly one group, that of its step name; the groups
\* together hold the whole list; groups come in order of first occurrence
\* and keep the recording order inside.
C13_GroupsPartition ==
    (reported /\ results.failed > 0)
    => /\ Len(errorsByTest) >= 1
       /\ \A g, h \in 1..Len(errorsByTest) :
            g # h => errorsByTest[g].test # errorsByTest[h].test
       /\ \A n \in 1..Len(results.errors) :
            \E g \in 1..Len(errorsByTest) :
                errorsByTest[g].test = results.errors[n].test
       /\ \A g \in 1..Len(errorsByTest) :
            /\ errorsByTest[g].errors # <<>>
            /\ errorsByTest[g].errors =
                   GroupOf(results.errors, errorsByTest[g].test)
       /\ TotalSize(errorsByTest) = Len(results.errors)
       /\ \A g, h \in 1..Len(errorsByTest) :
            g < h => FirstOf(results.errors, errorsByTest[g].test)
                       < FirstOf(results.errors, errorsByTest[h].test)

\* two groups whose records alternate in the failure list
C13_Witness ==
    /\ reported
    /\ Len(errorsByTest) = 2
    /\ Len(results.errors) >= 3
    /\ results.errors[1].test = errorsByTest[1].test
    /\ results.errors[2].test = errorsByTest[2].test
    /\ results.errors[3].test = errorsByTest[1].test

Min(a, b) == IF a < b THEN a ELSE b

\* C14: for every failure group of size n the report shows exactly
\* min(n, 3) examples, the first ones recorded, never more than 3, and an
\* "... and N more" line, with N = n - 3, exactly when n > 3.
C14_TruncatedDisplay ==
    (reported /\ results.failed > 0)
    => /\ Len(printed) = Len(errorsByTest)
       /\ \A g \in 1..Len(errorsByTest) :
            LET group == GroupOf(results.errors, errorsByTest[g].test)
                n == Len(group)
            IN /\ printed[g].test = errorsByTest[g].test
               /\ printed[g].count = n
               /\ Len(printed[g].examples) = Min(n, 3)
               /\ Len(printed[g].examples) <= 3
               /\ printed[g].examples = SubSeq(group, 1, Min(n, 3))
               /\ printed[g].more # <<>> <=> n > 3
               /\ n > 3 => printed[g].more = <<n - 3>>

\* a report with a group of 4 failures: 3 examples and "... and 1 more"
C14_Witness ==
    /\ reported
    /\ \E g \in 1..Len(printed) :
         /\ printed[g].count = 4
         /\ Len(printed[g].examples) = 3
         /\ printed[g].more = <<1>>

LiveOps == [n \in 1..Len(LiveSteps(1, <<>>)) |-> LiveSteps(1, <<>>)[n].op]

\* C15: in the live strategy, whenever the navigation of an iteration
\* succeeds, the XPath click, the typing of the name and the cancel click
\* are each attempted once, in that order, whichever of them fail: the
\* iteration has 4 outcomes in the order navigation, click, type, cancel.
C15_LaterStepsAllRun ==
    isLiveApp
    => \A j \in 1..i :
         LET outs == OfIteration(executed, j)
             made == CallsOf(j)
             done == IF j < i \/ pc = "LiveReturn" THEN Len(LiveOrder)
                     ELSE IF pc = "Live" THEN k - 1
                     ELSE 0
         IN (Len(outs) >= 1 /\ outs[1].success)
            => /\ Names(outs) = SubSeq(LiveOrder, 1, done)
               /\ [n \in 1..Len(made) |-> made[n].op] = SubSeq(LiveOps, 1, done)
               /\ j < i => Names(OfIteration(recorded, j)) = LiveOrder

\* an iteration whose navigation succeeded and whose three later steps
\* all failed
C15_Witness ==
    /\ isLiveApp
    /\ pc = "Loop"
    /\ i = 2
    /\ [n \in 1..Len(recorded) |-> recorded[n].success]
           = <<TRUE, FALSE, FALSE, FALSE>>

\* C16: a type-and-verify step returns Success exactly when the fill and
\* the read-back eval both complete without error and the value read back
\* is not empty; an empty read-back, a failing eval and a failing fill
\* (after which no read-back is made) each give a Failure.
C16_TypeVerdict ==
    [][(/\ pc = "Step"
        /\ k <= Len(FixedTests(i))
        /\ FixedTests(i)[k].kind = "type"
        /\ Len(executed') = Len(executed) + 1)
       => LET made == SubSeq(calls', Len(calls) + 1, Len(calls'))
              did == SubSeq(replies', Len(replies) + 1, Len(replies'))
              out == executed'[Len(executed')]
          IN /\ Len(made) = Len(did)
             /\ made[1].op = "fill"
             /\ did[1] = "throw" => Len(made) = 1
             /\ did[1] = "ok" => Len(made) = 2 /\ made[2].op = "eval"
             /\ out.success <=> did = <<"ok", "value">>
             /\ did = <<"throw">> => out.error = ErrorMessage("fill")
             /\ did = <<"ok", "throw">> => out.error = ErrorMessage("eval")
             /\ did = <<"ok", "empty">> => out.error = ValueNotSet]_vars

\* one typing step that failed in the three ways and other typing steps
\* that succeeded
C16_Witness ==
    /\ ~isLiveApp
    /\ pc = "Exited"
    /\ results.failed = 3
    /\ results.passed = 24
    /\ {results.errors[n].error : n \in 1..3}
           = {ErrorMessage("fill"), ErrorMessage("eval"), ValueNotSet}

\* the call clearTestPage makes
IsClear(c) == c.op = "eval" /\ c.target = <<"input, textarea">>

\* C17: in fixed-page mode the input-clearing call is made exactly once
\* per iteration, before the first step and after the last outcome of the
\* iteration before was recorded; in live mode it is never made.
C17_ClearOncePerIteration ==
    /\ isLiveApp => \A n \in 1..Len(calls) : ~IsClear(calls[n])
    /\ ~isLiveApp
       => /\ \A j \in 1..i :
               LET made == CallsOf(j) IN
               /\ made # <<>> => IsClear(made[1])
               /\ \A n \in 2..Len(made) : ~IsClear(made[n])
               /\ (j < i \/ pc = "Step") => made # <<>>
               /\ (j = i /\ pc \in {"Loop", "Clear", "Report"}) => made = <<>>
          /\ (calls # <<>> /\ IsClear(calls[Len(calls)]))
             => /\ recorded = executed
                /\ Len(recorded) = Len(FixedOrder) * (calls[Len(calls)].iter - 1)

\* the clearing call of the second iteration was just made
C17_Witness ==
    /\ ~isLiveApp
    /\ pc = "Step"
    /\ i = 2
    /\ k = 1
    /\ IsClear(calls[Len(calls)])
    /\ Len(recorded) = 9

\* the phases of a run, numbered in their order: Idle 0, Connecting 1,
\* Connected 2, Navigated 3, Running(j) 3 + j, Done last
DonePhase == 4 + (IF iterations > 0 THEN iterations ELSE 0)

Done == pc = "Report" \/ (pc = "Exited" /\ reported)

PhaseOf(at, index) ==
    CASE at = "Idle" -> 0
      [] at = "Connecting" -> 1
      [] at = "Connected" -> 2
      [] at = "Loop" /\ index = 1 -> 3
      [] at = "Loop" /\ index > 1 -> 3 + (index - 1)
      [] at \in {"Clear", "Step", "Live", "LiveReturn"} -> 3 + index
      [] OTHER -> DonePhase

\* the order of the phases and the count of the index: every step of a
\* run that does not abort stays in its phase or enters the next one, the
\* index grows by 1, and Done is entered with every index in 1..N run
PhasesInOrder ==
    /\ [][(pc' # "Exited" \/ reported')
          => \/ PhaseOf(pc', i') = PhaseOf(pc, i)
             \/ PhaseOf(pc', i') = PhaseOf(pc, i) + 1
             \/ /\ PhaseOf(pc, i) = 3
                /\ iterations < 1
                /\ PhaseOf(pc', i') = DonePhase']_vars
    /\ [][i' = i \/ i' = i + 1]_vars
    /\ [](Done => i = (IF iterations > 0 THEN iterations ELSE 0) + 1)

\* C18: a run passes through Idle, Connecting, Connected, Navigated,
\* Running(1), ..., Running(N), Done in this order, no phase twice; the
\* index starts at 1 and grows by 1, every index in 1..N is run once; and
\* when every client call returns, successfully or with an error, a run
\* whose setup succeeded ends in Done after the Nth iteration.
C18_PhaseOrder ==
    /\ PhasesInOrder
    /\ []((SetupSucceeded /\ ~ENABLED Next) => Done)

\* the failure records of a step history
FailuresOf(history) ==
    LET Failed(e) == ~e.success
        failed == SelectSeq(history, Failed)
    IN [n \in 1..Len(failed) |-> [iteration |-> failed[n].iteration,
                                  test |-> failed[n].test,
                                  error |-> failed[n].error]]

\* C19: in every reachable state the number of failure records is
\* results.failed; each record carries the iteration and the step name of
\* the failed step; the list only grows at its end, passed and failed never
\* decrease, and the iteration fields are non-decreasing and within 1..N.
C19_FailureList ==
    /\ [](/\ Len(results.errors) = results.failed
          /\ results.errors = FailuresOf(recorded)
          /\ \A n \in 1..Len(results.errors) :
               /\ results.errors[n].iteration \in 1..iterations
               /\ n > 1 => results.errors[n - 1].iteration
                             <= results.errors[n].iteration)
    /\ [][/\ IsPrefix(results.errors, results.errors')
          /\ results.passed' >= results.passed
          /\ results.failed' >= results.failed]_vars

\* a live run with failure records of two iterations
C19_Witness ==
    /\ isLiveApp
    /\ Len(results.errors) >= 3
    /\ results.errors[1].iteration = 1
    /\ results.errors[Len(results.errors)].iteration = 3
    /\ results.passed >= 1

\* results after recording history the way runIteration does, one outcome
\* at a time
RECURSIVE ReplaySteps(_, _)
ReplaySteps(res, history) ==
    IF history = <<>> THEN res
    ELSE ReplaySteps(RecordStep(res, Head(history).iteration, Head(history).test,
                                [success |-> Head(history).success,
                                 error |-> Head(history).error]),
                     Tail(history))

\* the list runLiveAppTests would return for the entries of one iteration
AsIterResults(history) ==
    [n \in 1..Len(history) |-> [name |-> history[n].test,
                                success |-> history[n].success,
                                error |-> history[n].error]]

\* results after recording history the way main does in live mode, one
\* iteration's list at a time, for the iterations from..to
RECURSIVE ReplayLists(_, _, _, _)
ReplayLists(res, history, from, to) ==
    IF from > to THEN res
    ELSE ReplayLists(RecordAll(res, from, AsIterResults(OfIteration(history, from))),
                     history, from + 1, to)

NoResults == [passed |-> 0, failed |-> 0, errors |-> <<>>]

\* C20: the two recording paths agree: recording outcomes one by one as
\* in runIteration and recording each iteration's list as in main give the
\* same passed, failed and failure records for the same outcomes; they
\* differ only in that results stay unchanged while a live suite runs.
C20_PathsAgree ==
    /\ [](/\ results = ReplaySteps(NoResults, recorded)
          /\ results = ReplayLists(NoResults, recorded, 1, i)
          /\ (isLiveApp /\ pc \in {"Live", "LiveReturn"})
             => /\ OfIteration(recorded, i) = <<>>
                /\ Len(executed) = Len(recorded) + Len(tests))
    /\ [][pc = "Live" => results' = results]_vars

\* a live suite has returned a failure and a success not yet counted
C20_Witness ==
    /\ isLiveApp
    /\ pc = "LiveReturn"
    /\ i = 2
    /\ Len(tests) = 4
    /\ ~tests[2].success
    /\ tests[3].success
    /\ results.failed >= 1
    /\ Len(recorded) = 4

====
